---- MODULE Spec2Model ----
(***************************************************************************)
(* A model of brokaw's typed NNTP client (src/client.rs): the connect-time *)
(* handshake of ClientConfig::connect and the methods of NntpClient, over  *)
(* a server that may answer any command with any well-framed response or   *)
(* with an I/O failure.                                                    *)
(***************************************************************************)
EXTENDS Integers, Sequences, FiniteSets, TLC

\* Bound on the number of NntpClient method calls after connect returned.
MaxOps == 2

----------------------------------------------------------------------------
(* Option<T> and Result<T> *)

None == [some |-> FALSE]

Some(x) == [some |-> TRUE, v |-> x]

Ok(x) == [tag |-> "Ok", val |-> x]

IsOk(r) == r.tag = "Ok"

Range(s) == {s[i] : i \in DOMAIN s}

----------------------------------------------------------------------------
(* ResponseCode / Kind *)

\* The table from numeric status codes to Kind.
KindTable ==
    ( 101 :> "Capabilities"
   @@ 200 :> "PostingAllowed"
   @@ 201 :> "PostingNotPermitted"
   @@ 205 :> "ConnectionClosing"
   @@ 211 :> "GroupSelected"
   @@ 220 :> "Article"
   @@ 221 :> "Head"
   @@ 222 :> "Body"
   @@ 223 :> "ArticleExists"
   @@ 281 :> "AuthenticationAccepted"
   @@ 381 :> "PasswordRequired"
   @@ 400 :> "TemporarilyUnavailable"
   @@ 411 :> "NoSuchNewsgroup"
   @@ 420 :> "InvalidCurrentArticleNumber"
   @@ 423 :> "NoArticleWithNumber"
   @@ 430 :> "NoArticleWithMessageId"
   @@ 502 :> "PermanentlyUnavailable" )

Known(kind) == [known |-> TRUE, kind |-> kind]

Unknown(n) == [known |-> FALSE, code |-> n]

\* ResponseCode::from(u): a total lookup.
ResponseCodeFrom(n) ==
    IF n \in DOMAIN KindTable THEN Known(KindTable[n]) ELSE Unknown(n)

----------------------------------------------------------------------------
(* RawResponse *)

\* str::parse::<u32> on the decimal texts that occur in the model.
ParseU32 ==
    ( "1" :> 1 @@ "2" :> 2 @@ "3" :> 3
   @@ "101" :> 101 @@ "205" :> 205 @@ "211" :> 211 @@ "220" :> 220
   @@ "221" :> 221 @@ "222" :> 222 @@ "223" :> 223 @@ "281" :> 281
   @@ "381" :> 381 @@ "411" :> 411 @@ "420" :> 420 @@ "423" :> 423
   @@ "430" :> 430 @@ "599" :> 599 )

\* A RawResponse: the first line as its whitespace-separated tokens (the
\* first token is the status code), the code parsed from it, and the
\* optional multi-line data block as a sequence of token lines.
RawResponse(codeText, rest, body) ==
    [code |-> ParseU32[codeText], first_line |-> <<codeText>> \o rest, body |-> body]

\* RawResponse::code()
Code(resp) == ResponseCodeFrom(resp.code)

\* RawResponse::first_line_to_utf8_lossy()
FirstLineToUtf8Lossy(resp) == resp.first_line

CodeTexts ==
    {"101", "205", "211", "220", "221", "222", "223", "281", "381",
     "411", "420", "423", "430", "599"}

NoDataBlocks == None

ReaderBlock == Some(<< <<"READER">> >>)

VersionBlock == Some(<< <<"VERSION", "2">>, <<"POST">> >>)

\* The shapes of first line (after the code) and data block the server uses.
PlainShape == << <<"3", "1", "3", "g1">>, NoDataBlocks >>

Shapes ==
    { << <<"3", "1", "3", "g1">>, NoDataBlocks >>,
      << <<"2", "1", "2", "g2">>, ReaderBlock >>,
      << <<"3", "1", "3">>, VersionBlock >>,
      << <<"x", "1", "3", "g1">>, NoDataBlocks >> }

\* The codes the server sends with every shape; the others come with PlainShape.
ShapedCodeTexts == {"101", "211"}

Responses ==
    {RawResponse(c, s[1], s[2]) : c \in ShapedCodeTexts, s \in Shapes}
    \cup {RawResponse(c, PlainShape[1], PlainShape[2]) : c \in CodeTexts}

----------------------------------------------------------------------------
(* Error *)

\* Error::Failure { code, resp, msg }
Failure(code, resp, msg) == [tag |-> "Failure", code |-> code, resp |-> resp, msg |-> msg]

\* Error::failure(resp): the response's own code and no message.
ErrorFailure(resp) == Failure(Code(resp), resp, None)

\* Error::missing_field(name)
MissingField(name) == [tag |-> "MissingField", field |-> name]

\* Error::parse_error(name)
ParseError(name) == [tag |-> "ParseError", field |-> name]

\* An I/O error of the connection other than a timeout.
IoError == [tag |-> "Io"]

\* The error of a read that exceeded the configured read timeout.
TimedOut == [tag |-> "Timeout"]

\* RawResponse::fail_unless(kind)
FailUnless(resp, kind) ==
    IF Code(resp) = Known(kind) THEN Ok(resp) ELSE ErrorFailure(resp)

\* util::err_if_not_kind(resp, kind)
ErrIfNotKind(resp, kind) ==
    IF Code(resp) = Known(kind) THEN Ok([unit |-> TRUE]) ELSE ErrorFailure(resp)

----------------------------------------------------------------------------
(* Typed response converters *)

\* util::parse_field for a u32 field at position i of the tokens.
ParseFieldU32(toks, i, name) ==
    IF Len(toks) < i THEN MissingField(name)
    ELSE IF toks[i] \in DOMAIN ParseU32 THEN Ok(ParseU32[toks[i]])
    ELSE ParseError(name)

\* util::parse_field for a String field: parsing a String cannot fail.
ParseFieldString(toks, i, name) ==
    IF Len(toks) < i THEN MissingField(name) ELSE Ok(toks[i])

\* GroupTryFrom, but reading high before low.
GroupTryFromHighBeforeLow(resp) ==
    LET kind   == ErrIfNotKind(resp, "GroupSelected")
        toks   == FirstLineToUtf8Lossy(resp)
        number == ParseFieldU32(toks, 2, "number")
        high   == ParseFieldU32(toks, 3, "high")
        low    == ParseFieldU32(toks, 4, "low")
        name   == ParseFieldString(toks, 5, "name")
    IN  IF ~IsOk(kind) THEN kind
        ELSE IF Len(toks) < 1 THEN MissingField("response code")
        ELSE IF ~IsOk(number) THEN number
        ELSE IF ~IsOk(high) THEN high
        ELSE IF ~IsOk(low) THEN low
        ELSE IF ~IsOk(name) THEN name
        ELSE Ok([number |-> number.val, low |-> low.val,
                 high |-> high.val, name |-> name.val])

\* impl TryFrom<&RawResponse> for Group
GroupTryFrom(resp) ==
    LET kind   == ErrIfNotKind(resp, "GroupSelected")
        toks   == FirstLineToUtf8Lossy(resp)
        number == ParseFieldU32(toks, 2, "number")
        low    == ParseFieldU32(toks, 3, "low")
        high   == ParseFieldU32(toks, 4, "high")
        name   == ParseFieldString(toks, 5, "name")
    IN  IF ~IsOk(kind) THEN kind
        ELSE IF Len(toks) < 1 THEN MissingField("response code")
        ELSE IF ~IsOk(number) THEN number
        ELSE IF ~IsOk(low) THEN low
        ELSE IF ~IsOk(high) THEN high
        ELSE IF ~IsOk(name) THEN name
        ELSE Ok([number |-> number.val, low |-> low.val,
                 high |-> high.val, name |-> name.val])

\* impl TryFrom<&RawResponse> for Capabilities: the set of tokens of the
\* data block; a response without a data block cannot be converted.
CapabilitiesTryFrom(resp) ==
    LET kind == ErrIfNotKind(resp, "Capabilities")
    IN  IF ~IsOk(kind) THEN kind
        ELSE IF ~resp.body.some THEN MissingField("data blocks")
        ELSE Ok([tokens |-> UNION {Range(l) : l \in Range(resp.body.v)}])

\* impl TryFrom<&RawResponse> for BinaryArticle
BinaryArticleTryFrom(resp) ==
    LET kind == ErrIfNotKind(resp, "Article")
    IN  IF ~IsOk(kind) THEN kind ELSE Ok([article |-> resp.body])

\* impl TryFrom<&RawResponse> for Head
HeadTryFrom(resp) ==
    LET kind == ErrIfNotKind(resp, "Head")
    IN  IF ~IsOk(kind) THEN kind ELSE Ok([headers |-> resp.body])

\* impl TryFrom<&RawResponse> for Body
BodyTryFrom(resp) ==
    LET kind == ErrIfNotKind(resp, "Body")
    IN  IF ~IsOk(kind) THEN kind ELSE Ok([payload |-> resp.body])

\* impl TryFrom<&RawResponse> for Stat
StatTryFrom(resp) ==
    LET kind == ErrIfNotKind(resp, "ArticleExists")
    IN  IF ~IsOk(kind) THEN kind ELSE Ok([stat |-> Tail(resp.first_line)])

----------------------------------------------------------------------------
(* Commands *)

CmdAuthInfoUser == [verb |-> "AUTHINFO USER", arg |-> "user"]

CmdAuthInfoPass == [verb |-> "AUTHINFO PASS", arg |-> "secret"]

CmdCapabilities == [verb |-> "CAPABILITIES", arg |-> ""]

CmdGroup(name) == [verb |-> "GROUP", arg |-> name]

CmdArticle == [verb |-> "ARTICLE", arg |-> "1"]

CmdHead == [verb |-> "HEAD", arg |-> "1"]

CmdBody == [verb |-> "BODY", arg |-> "1"]

CmdStat == [verb |-> "STAT", arg |-> "1"]

CmdQuit == [verb |-> "QUIT", arg |-> ""]

CmdModeReader == [verb |-> "MODE READER", arg |-> ""]

\* The names a caller passes to select_group; the initial group is g1.
GroupNames == {"g2"}

\* The commands a caller passes to NntpClient::command.
RawCommands == {CmdGroup("g1"), CmdCapabilities, CmdModeReader}

\* The configurations connect is called on.
\* A ConnectionConfig: here only its read timeout, in seconds.
ConnectionConfig(read_timeout) == [read_timeout |-> read_timeout]

ClientConfigs ==
    { [authinfo |-> None, group |-> None,
       conn_config |-> ConnectionConfig(None)],
      [authinfo |-> Some(<<"user", "secret">>), group |-> None,
       conn_config |-> ConnectionConfig(Some(10))],
      [authinfo |-> None, group |-> Some("g1"),
       conn_config |-> ConnectionConfig(Some(10))],
      [authinfo |-> Some(<<"user", "secret">>), group |-> Some("g1"),
       conn_config |-> ConnectionConfig(None)] }

\* What NntpConnection::command can return: a response or an I/O error.
CommandResults == {Ok(r) : r \in Responses} \cup {IoError, TimedOut}

----------------------------------------------------------------------------
(* The handshake steps of ClientConfig::connect *)

Unit == [unit |-> TRUE]

\* AuthenticateUser, but also satisfied by the final "accepted" code 281.
AuthenticateUserAccepting281(res) ==
    IF ~IsOk(res) THEN res
    ELSE IF Code(res.val) \notin {ResponseCodeFrom(381), ResponseCodeFrom(281)}
         THEN Failure(Code(res.val), res.val, Some(<<"AUTHINFO", "USER", "failed">>))
         ELSE Ok(Unit)

\* authenticate, first round trip: AUTHINFO USER must be answered with 381.
AuthenticateUser(res) ==
    IF ~IsOk(res) THEN res
    ELSE IF Code(res.val) # ResponseCodeFrom(381)
         THEN Failure(Code(res.val), res.val, Some(<<"AUTHINFO", "USER", "failed">>))
         ELSE Ok(Unit)

\* AuthenticatePass, but satisfied by any response.
AuthenticatePassUnchecked(res) ==
    IF ~IsOk(res) THEN res ELSE Ok(Unit)

\* authenticate, second round trip: AUTHINFO PASS must be accepted.
AuthenticatePass(res) ==
    IF ~IsOk(res) THEN res
    ELSE IF Code(res.val) # Known("AuthenticationAccepted")
         THEN Failure(Code(res.val), res.val, Some(<<"AUTHINFO", "PASS", "failed">>))
         ELSE Ok(Unit)

\* GetCapabilities, but settling for no capabilities when the response
\* cannot be converted.
GetCapabilitiesLenient(res) ==
    IF ~IsOk(res) THEN res
    ELSE IF Code(res.val) # Known("Capabilities") THEN ErrorFailure(res.val)
         ELSE IF IsOk(CapabilitiesTryFrom(res.val)) THEN CapabilitiesTryFrom(res.val)
              ELSE Ok([tokens |-> {}])

\* get_capabilities(conn)
GetCapabilities(res) ==
    IF ~IsOk(res) THEN res
    ELSE IF Code(res.val) # Known("Capabilities") THEN ErrorFailure(res.val)
         ELSE CapabilitiesTryFrom(res.val)

\* SelectGroupHelper without the arm for NoSuchNewsgroup.
SelectGroupHelperNoSuchAsOther(res) ==
    IF ~IsOk(res) THEN res
    ELSE LET resp == res.val
             code == Code(resp)
         IN  IF code = Known("GroupSelected") THEN GroupTryFrom(resp)
             ELSE Failure(code, resp, Some(FirstLineToUtf8Lossy(resp)))

\* select_group(conn, group): the helper connect uses.
SelectGroupHelper(res) ==
    IF ~IsOk(res) THEN res
    ELSE LET resp == res.val
             code == Code(resp)
         IN  IF code = Known("GroupSelected") THEN GroupTryFrom(resp)
             ELSE IF code = Known("NoSuchNewsgroup") THEN ErrorFailure(resp)
             ELSE Failure(code, resp, Some(FirstLineToUtf8Lossy(resp)))

----------------------------------------------------------------------------
(* The methods of NntpClient: the value returned and the fields written, *)
(* from the fields before the call and what the connection returned.     *)

\* NntpClient::command
ClientCommand(res) == res

\* ClientSelectGroup without the arm for NoSuchNewsgroup.
ClientSelectGroupNoSuchAsOther(self_group, res) ==
    IF ~IsOk(res) THEN [ret |-> res, group |-> self_group]
    ELSE LET resp == res.val
             code == Code(resp)
             parsed == GroupTryFrom(resp)
         IN  IF code = Known("GroupSelected")
             THEN IF IsOk(parsed)
                  THEN [ret |-> Ok(parsed.val), group |-> Some(parsed.val)]
                  ELSE [ret |-> parsed, group |-> self_group]
             ELSE [ret |-> Failure(code, resp, Some(FirstLineToUtf8Lossy(resp))),
                   group |-> self_group]

\* ClientSelectGroup, but forgetting the cached group when the selection fails.
ClientSelectGroupForgetting(self_group, res) ==
    IF ~IsOk(res) THEN [ret |-> res, group |-> None]
    ELSE LET resp == res.val
             code == Code(resp)
             parsed == GroupTryFrom(resp)
         IN  IF code = Known("GroupSelected")
             THEN IF IsOk(parsed)
                  THEN [ret |-> Ok(parsed.val), group |-> Some(parsed.val)]
                  ELSE [ret |-> parsed, group |-> None]
             ELSE IF code = Known("NoSuchNewsgroup")
             THEN [ret |-> ErrorFailure(resp), group |-> None]
             ELSE [ret |-> Failure(code, resp, Some(FirstLineToUtf8Lossy(resp))),
                   group |-> None]

\* NntpClient::select_group
ClientSelectGroup(self_group, res) ==
    IF ~IsOk(res) THEN [ret |-> res, group |-> self_group]
    ELSE LET resp == res.val
             code == Code(resp)
             parsed == GroupTryFrom(resp)
         IN  IF code = Known("GroupSelected")
             THEN IF IsOk(parsed)
                  THEN [ret |-> Ok(parsed.val), group |-> Some(parsed.val)]
                  ELSE [ret |-> parsed, group |-> self_group]
             ELSE IF code = Known("NoSuchNewsgroup")
             THEN [ret |-> ErrorFailure(resp), group |-> self_group]
             ELSE [ret |-> Failure(code, resp, Some(FirstLineToUtf8Lossy(resp))),
                   group |-> self_group]

\* ClientUpdateCapabilities, but merging the new set into the cached one.
ClientUpdateCapabilitiesMerging(self_capabilities, res) ==
    LET checked == IF IsOk(res) THEN FailUnless(res.val, "Capabilities") ELSE res
        parsed  == CapabilitiesTryFrom(checked.val)
        merged  == [tokens |-> self_capabilities.tokens \cup parsed.val.tokens]
    IN  IF ~IsOk(checked) THEN [ret |-> checked, capabilities |-> self_capabilities]
        ELSE IF ~IsOk(parsed) THEN [ret |-> parsed, capabilities |-> self_capabilities]
        ELSE [ret |-> Ok(merged), capabilities |-> merged]

\* NntpClient::update_capabilities
ClientUpdateCapabilities(self_capabilities, res) ==
    LET checked == IF IsOk(res) THEN FailUnless(res.val, "Capabilities") ELSE res
        parsed  == CapabilitiesTryFrom(checked.val)
    IN  IF ~IsOk(checked) THEN [ret |-> checked, capabilities |-> self_capabilities]
        ELSE IF ~IsOk(parsed) THEN [ret |-> parsed, capabilities |-> self_capabilities]
        ELSE [ret |-> Ok(parsed.val), capabilities |-> parsed.val]

\* ClientArticle, but requiring the code of HEAD.
ClientArticleExpectingHead(res) ==
    LET checked == IF IsOk(res) THEN FailUnless(res.val, "Head") ELSE res
    IN  IF ~IsOk(checked) THEN checked ELSE BinaryArticleTryFrom(checked.val)

\* NntpClient::article
ClientArticle(res) ==
    LET checked == IF IsOk(res) THEN FailUnless(res.val, "Article") ELSE res
    IN  IF ~IsOk(checked) THEN checked ELSE BinaryArticleTryFrom(checked.val)

\* NntpClient::body
ClientBody(res) ==
    LET checked == IF IsOk(res) THEN FailUnless(res.val, "Head") ELSE res
    IN  IF ~IsOk(checked) THEN checked ELSE BodyTryFrom(checked.val)

\* NntpClient::head
ClientHead(res) ==
    LET checked == IF IsOk(res) THEN FailUnless(res.val, "Head") ELSE res
    IN  IF ~IsOk(checked) THEN checked ELSE HeadTryFrom(checked.val)

\* ClientStat, but treating "invalid current article number" as a failure.
ClientStatWithoutCurrent(res) ==
    IF ~IsOk(res) THEN res
    ELSE LET resp == res.val
             code == Code(resp)
             conv == StatTryFrom(resp)
         IN  IF code = Known("ArticleExists")
             THEN IF IsOk(conv) THEN Ok(Some(conv.val)) ELSE conv
             ELSE IF code \in {Known("NoArticleWithMessageId"),
                               Known("NoArticleWithNumber")}
             THEN Ok(None)
             ELSE ErrorFailure(resp)

\* NntpClient::stat
ClientStat(res) ==
    IF ~IsOk(res) THEN res
    ELSE LET resp == res.val
             code == Code(resp)
             conv == StatTryFrom(resp)
         IN  IF code = Known("ArticleExists")
             THEN IF IsOk(conv) THEN Ok(Some(conv.val)) ELSE conv
             ELSE IF code \in {Known("NoArticleWithMessageId"),
                               Known("InvalidCurrentArticleNumber"),
                               Known("NoArticleWithNumber")}
             THEN Ok(None)
             ELSE ErrorFailure(resp)

\* ClientClose, but returning the response whatever its code.
ClientCloseUnchecked(res) == res

\* NntpClient::close
ClientClose(res) ==
    IF IsOk(res) THEN FailUnless(res.val, "ConnectionClosing") ELSE res

----------------------------------------------------------------------------
(* State *)

VARIABLES
    config,        \* the ClientConfig connect is called on
    pc,            \* position in connect: "start", "auth_user", "auth_pass",
                   \* "caps", "group"; then "ready" (client returned) or "failed"
    sent,          \* the commands connect wrote to the connection, in order
    recvd,         \* what the connection returned for each of them
    nsent,         \* number of commands written to the connection
    nrecv,         \* number of responses read from the connection
    unanswered,    \* for each command written whose response is still to be
                   \* read, in order, the group it asks the server to select
    server_group,  \* the name of the group selected on the server
    lastCmd,       \* the last command written to the connection
    lastResp,      \* what the connection returned for the last read
    result,        \* the value returned by the last completed call
    client_config, \* NntpClient.config
    capabilities,  \* connect's local, then NntpClient.capabilities
    group,         \* connect's local, then NntpClient.group
    lastOp,        \* the call the last step belongs to
    nops,          \* number of NntpClient method calls made
    first_line,    \* the bytes of a first line given to use_decoder
    use_decoder    \* what use_decoder returned for it

vars == <<config, pc, sent, recvd, nsent, nrecv, unanswered, server_group, lastCmd, lastResp, result, client_config, capabilities,
          group, lastOp, nops, first_line, use_decoder>>

\* The state of the compression sniffing, which the client never touches.
decoder_vars == <<first_line, use_decoder>>

Pending == [tag |-> "Pending"]

NoCapabilities == [tokens |-> {}]

Init ==
    /\ config \in ClientConfigs
    /\ pc = "start"
    /\ sent = <<>>
    /\ recvd = <<>>
    /\ nsent = 0
    /\ nrecv = 0
    /\ unanswered = <<>>
    /\ server_group = None
    /\ lastCmd = None
    /\ lastResp = Pending
    /\ result = Pending
    /\ client_config = None
    /\ capabilities = NoCapabilities
    /\ group = None
    /\ lastOp = "connect"
    /\ nops = 0
    /\ first_line = <<>>
    /\ use_decoder = None

\* The group a command asks the server to select, if it is a GROUP command.
Selects(c) == IF c.verb = "GROUP" THEN Some(c.arg) ELSE None

\* NntpConnection::command: write one command, then read one response.  The
\* server answers the commands in the order they were written, so the response
\* read is the answer to the oldest command still unanswered.  A read that
\* times out leaves the command unanswered, and nothing resynchronizes the
\* stream; after any other I/O error the command is never answered.  The
\* server selects a group when it answers GROUP with 211.
ConnCommand(c, res) ==
    /\ sent' = IF pc = "ready" THEN sent ELSE Append(sent, c)
    /\ recvd' = IF pc = "ready" THEN recvd ELSE Append(recvd, res)
    /\ nsent' = nsent + 1
    /\ lastCmd' = Some(c)
    /\ lastResp' = res
    /\ LET written == Append(unanswered, Selects(c))
       IN  IF IsOk(res)
           THEN /\ unanswered' = Tail(written)
                /\ nrecv' = nrecv + 1
                /\ server_group' =
                      IF Head(written).some /\ Code(res.val) = Known("GroupSelected")
                      THEN Head(written)
                      ELSE server_group
           ELSE /\ unanswered' = IF res = TimedOut THEN written ELSE unanswered
                /\ UNCHANGED <<nrecv, server_group>>

\* connect returns Err(e).
ConnectFails(e) ==
    /\ pc' = "failed"
    /\ result' = e
    /\ UNCHANGED <<client_config, capabilities, group>>

\* connect returns Ok(NntpClient { conn, config, capabilities, group }).
ConnectReturns(caps, grp) ==
    /\ pc' = "ready"
    /\ result' = Ok([client |-> TRUE])
    /\ client_config' = Some(config)
    /\ capabilities' = caps
    /\ group' = grp

\* ConnectGreeting, but going on to the capabilities whatever the credentials.
ConnectGreetingSkippingAuth ==
    /\ pc = "start"
    /\ \E res \in CommandResults :
        /\ lastResp' = res
        /\ IF IsOk(res)
           THEN /\ pc' = "caps"
                /\ UNCHANGED <<result, client_config, capabilities, group>>
           ELSE ConnectFails(res)
    /\ UNCHANGED <<config, sent, recvd, nsent, nrecv, unanswered,
                   server_group, lastCmd, lastOp, nops>>
    /\ UNCHANGED decoder_vars

\* connect: NntpConnection::connect, which reads the greeting.
ConnectGreeting ==
    /\ pc = "start"
    /\ \E res \in CommandResults :
        /\ lastResp' = res
        /\ IF IsOk(res)
           THEN /\ pc' = IF config.authinfo.some THEN "auth_user" ELSE "caps"
                /\ UNCHANGED <<result, client_config, capabilities, group>>
           ELSE ConnectFails(res)
    /\ UNCHANGED <<config, sent, recvd, nsent, nrecv, unanswered,
                   server_group, lastCmd, lastOp, nops>>
    /\ UNCHANGED decoder_vars

\* connect: authenticate, AUTHINFO USER.
ConnectAuthUser ==
    /\ pc = "auth_user"
    /\ \E res \in CommandResults :
        /\ ConnCommand(CmdAuthInfoUser, res)
        /\ LET r == AuthenticateUser(res)
           IN  IF IsOk(r)
               THEN /\ pc' = "auth_pass"
                    /\ UNCHANGED <<result, client_config, capabilities, group>>
               ELSE ConnectFails(r)
    /\ UNCHANGED <<config, lastOp, nops>>
    /\ UNCHANGED decoder_vars

\* connect: authenticate, AUTHINFO PASS.
ConnectAuthPass ==
    /\ pc = "auth_pass"
    /\ \E res \in CommandResults :
        /\ ConnCommand(CmdAuthInfoPass, res)
        /\ LET r == AuthenticatePass(res)
           IN  IF IsOk(r)
               THEN /\ pc' = "caps"
                    /\ UNCHANGED <<result, client_config, capabilities, group>>
               ELSE ConnectFails(r)
    /\ UNCHANGED <<config, lastOp, nops>>
    /\ UNCHANGED decoder_vars

\* ConnectCapabilities, but going on when get_capabilities failed.
ConnectCapabilitiesIgnoringError ==
    /\ pc = "caps"
    /\ \E res \in CommandResults :
        /\ ConnCommand(CmdCapabilities, res)
        /\ LET r == GetCapabilities(res)
               caps == IF IsOk(r) THEN r.val ELSE NoCapabilities
           IN  IF config.group.some
               THEN /\ pc' = "group"
                    /\ capabilities' = caps
                    /\ UNCHANGED <<result, client_config, group>>
               ELSE ConnectReturns(caps, None)
    /\ UNCHANGED <<config, lastOp, nops>>
    /\ UNCHANGED decoder_vars

\* ConnectCapabilities, but building the client without the initial group.
ConnectCapabilitiesSkippingGroup ==
    /\ pc = "caps"
    /\ \E res \in CommandResults :
        /\ ConnCommand(CmdCapabilities, res)
        /\ LET r == GetCapabilities(res)
           IN  IF ~IsOk(r) THEN ConnectFails(r)
               ELSE ConnectReturns(r.val, None)
    /\ UNCHANGED <<config, lastOp, nops>>
    /\ UNCHANGED decoder_vars

\* connect: get_capabilities; without an initial group the client is built.
ConnectCapabilities ==
    /\ pc = "caps"
    /\ \E res \in CommandResults :
        /\ ConnCommand(CmdCapabilities, res)
        /\ LET r == GetCapabilities(res)
           IN  IF ~IsOk(r) THEN ConnectFails(r)
               ELSE IF config.group.some
               THEN /\ pc' = "group"
                    /\ capabilities' = r.val
                    /\ UNCHANGED <<result, client_config, group>>
               ELSE ConnectReturns(r.val, None)
    /\ UNCHANGED <<config, lastOp, nops>>
    /\ UNCHANGED decoder_vars

\* connect: select_group for the initial group, then the client is built.
ConnectGroup ==
    /\ pc = "group"
    /\ \E res \in CommandResults :
        /\ ConnCommand(CmdGroup(config.group.v), res)
        /\ LET r == SelectGroupHelper(res)
           IN  IF ~IsOk(r) THEN ConnectFails(r)
               ELSE ConnectReturns(capabilities, Some(r.val))
    /\ UNCHANGED <<config, lastOp, nops>>
    /\ UNCHANGED decoder_vars

\* A method call on the client connect returned.
MethodCall(op) ==
    /\ pc = "ready"
    /\ nops < MaxOps
    /\ nops' = nops + 1
    /\ lastOp' = op
    /\ UNCHANGED <<config, pc, client_config>>
    /\ UNCHANGED decoder_vars

\* CallCommand, but caching the group when a raw GROUP command is accepted.
CallCommandTrackingGroup ==
    /\ MethodCall("command")
    /\ \E c \in RawCommands, res \in CommandResults :
        /\ ConnCommand(c, res)
        /\ result' = ClientCommand(res)
        /\ group' = IF c.verb = "GROUP" /\ IsOk(res) /\ IsOk(GroupTryFrom(res.val))
                    THEN Some(GroupTryFrom(res.val).val)
                    ELSE group
    /\ UNCHANGED capabilities

CallCommand ==
    /\ MethodCall("command")
    /\ \E c \in RawCommands, res \in CommandResults :
        /\ ConnCommand(c, res)
        /\ result' = ClientCommand(res)
    /\ UNCHANGED <<capabilities, group>>

\* CallSelectGroup, but recording a selected group as the configured one.
CallSelectGroupReconfiguring ==
    /\ pc = "ready"
    /\ nops < MaxOps
    /\ nops' = nops + 1
    /\ lastOp' = "select_group"
    /\ \E name \in GroupNames, res \in CommandResults :
        /\ ConnCommand(CmdGroup(name), res)
        /\ LET out == ClientSelectGroup(group, res)
           IN  /\ result' = out.ret
               /\ group' = out.group
               /\ client_config' =
                     IF IsOk(out.ret)
                     THEN Some([client_config.v EXCEPT !.group = Some(out.ret.val.name)])
                     ELSE client_config
    /\ UNCHANGED <<config, pc, capabilities>>
    /\ UNCHANGED decoder_vars

CallSelectGroup ==
    /\ MethodCall("select_group")
    /\ \E name \in GroupNames, res \in CommandResults :
        /\ ConnCommand(CmdGroup(name), res)
        /\ LET out == ClientSelectGroup(group, res)
           IN  /\ result' = out.ret
               /\ group' = out.group
    /\ UNCHANGED capabilities

CallUpdateCapabilities ==
    /\ MethodCall("update_capabilities")
    /\ \E res \in CommandResults :
        /\ ConnCommand(CmdCapabilities, res)
        /\ LET out == ClientUpdateCapabilities(capabilities, res)
           IN  /\ result' = out.ret
               /\ capabilities' = out.capabilities
    /\ UNCHANGED group

CallArticle ==
    /\ MethodCall("article")
    /\ \E res \in CommandResults :
        /\ ConnCommand(CmdArticle, res)
        /\ result' = ClientArticle(res)
    /\ UNCHANGED <<capabilities, group>>

CallBody ==
    /\ MethodCall("body")
    /\ \E res \in CommandResults :
        /\ ConnCommand(CmdBody, res)
        /\ result' = ClientBody(res)
    /\ UNCHANGED <<capabilities, group>>

CallHead ==
    /\ MethodCall("head")
    /\ \E res \in CommandResults :
        /\ ConnCommand(CmdHead, res)
        /\ result' = ClientHead(res)
    /\ UNCHANGED <<capabilities, group>>

\* CallStat, but writing STAT a second time when the first attempt failed.
CallStatRetrying ==
    /\ MethodCall("stat")
    /\ \E first \in CommandResults, res \in CommandResults :
        IF IsOk(first)
        THEN /\ ConnCommand(CmdStat, first)
             /\ result' = ClientStat(first)
        ELSE /\ nsent' = nsent + 2
             /\ lastCmd' = Some(CmdStat)
             /\ lastResp' = res
             /\ result' = ClientStat(res)
             /\ LET kept    == IF first = TimedOut
                               THEN Append(unanswered, Selects(CmdStat))
                               ELSE unanswered
                    written == Append(kept, Selects(CmdStat))
                IN  IF IsOk(res)
                    THEN /\ unanswered' = Tail(written)
                         /\ nrecv' = nrecv + 1
                         /\ server_group' =
                               IF Head(written).some /\ Code(res.val) = Known("GroupSelected")
                               THEN Head(written)
                               ELSE server_group
                    ELSE /\ unanswered' = IF res = TimedOut THEN written ELSE kept
                         /\ UNCHANGED <<nrecv, server_group>>
             /\ UNCHANGED <<sent, recvd>>
    /\ UNCHANGED <<capabilities, group>>

CallStat ==
    /\ MethodCall("stat")
    /\ \E res \in CommandResults :
        /\ ConnCommand(CmdStat, res)
        /\ result' = ClientStat(res)
    /\ UNCHANGED <<capabilities, group>>

CallClose ==
    /\ MethodCall("close")
    /\ \E res \in CommandResults :
        /\ ConnCommand(CmdQuit, res)
        /\ result' = ClientClose(res)
    /\ UNCHANGED <<capabilities, group>>

Next ==
    \/ ConnectGreeting
    \/ ConnectAuthUser
    \/ ConnectAuthPass
    \/ ConnectCapabilities
    \/ ConnectGroup
    \/ CallCommand
    \/ CallSelectGroup
    \/ CallUpdateCapabilities
    \/ CallArticle
    \/ CallBody
    \/ CallHead
    \/ CallStat
    \/ CallClose

Spec == Init /\ [][Next]_vars

----------------------------------------------------------------------------
(* The connect-time handshake *)

\* C1: with credentials configured, when the response to AUTHINFO USER has a
\* code other than 381, connect fails with a Failure that carries the message
\* "AUTHINFO USER failed" and that response, no client is built, and
\* AUTHINFO USER stays the only command written: AUTHINFO PASS, CAPABILITIES
\* and GROUP are never sent on that connection.
C1_UserRejectedAbortsConnect ==
    \A i \in DOMAIN sent :
        (sent[i] = CmdAuthInfoUser /\ IsOk(recvd[i]) /\ recvd[i].val.code # 381)
        => /\ config.authinfo.some
           /\ pc = "failed"
           /\ result = Failure(Code(recvd[i].val), recvd[i].val,
                               Some(<<"AUTHINFO", "USER", "failed">>))
           /\ client_config = None
           /\ sent = <<CmdAuthInfoUser>>
           /\ nsent = 1

\* AUTHINFO USER was answered with 281 and connect has failed.
C1_Witness ==
    /\ sent = <<CmdAuthInfoUser>>
    /\ IsOk(recvd[1])
    /\ recvd[1].val.code = 281
    /\ pc = "failed"
    /\ result.tag = "Failure"

\* C2: connect reads the greeting before it writes anything, and the
\* commands it writes are, in this order, AUTHINFO USER and AUTHINFO PASS
\* (only with credentials), CAPABILITIES (always) and GROUP <name> (only with
\* an initial group); every command but the last has had its response, and a
\* client is returned only after the whole sequence.  With an initial group
\* and no credentials the sequence is CAPABILITIES, GROUP, and the cached
\* group of the returned client is the Group parsed from the GROUP response.
C2_HandshakeOrder ==
    LET handshake ==
            (IF config.authinfo.some THEN <<CmdAuthInfoUser, CmdAuthInfoPass>> ELSE <<>>)
            \o <<CmdCapabilities>>
            \o (IF config.group.some THEN <<CmdGroup(config.group.v)>> ELSE <<>>)
    IN  /\ Len(sent) <= Len(handshake)
        /\ \A i \in DOMAIN sent : sent[i] = handshake[i]
        /\ pc = "start" => sent = <<>>
        /\ Len(recvd) = Len(sent)
        /\ \A i \in 1..(Len(sent) - 1) : IsOk(recvd[i])
        /\ pc = "ready" => sent = handshake
        /\ (pc = "ready" /\ nops = 0) => nsent = Len(handshake)
        /\ (pc = "ready" /\ nops = 0 /\ ~config.authinfo.some /\ config.group.some)
           => /\ sent = <<CmdCapabilities, CmdGroup(config.group.v)>>
              /\ IsOk(GroupTryFrom(recvd[2].val))
              /\ group = Some(GroupTryFrom(recvd[2].val).val)

\* connect returned a client after CAPABILITIES and GROUP g1, the latter
\* answered "211 2 1 2 g2".
C2_Witness ==
    /\ pc = "ready"
    /\ nops = 0
    /\ ~config.authinfo.some
    /\ sent = <<CmdCapabilities, CmdGroup("g1")>>
    /\ recvd[2].val.first_line = <<"211", "2", "1", "2", "g2">>
    /\ group = Some([number |-> 2, low |-> 1, high |-> 2, name |-> "g2"])

\* C3: the first handshake step that fails aborts connect: the failing
\* step's command is the last one written, its error is what connect
\* returns, and no client is built.
C3_FirstFailureAborts ==
    LET stepResult(i) ==
            IF sent[i] = CmdAuthInfoUser THEN AuthenticateUser(recvd[i])
            ELSE IF sent[i] = CmdAuthInfoPass THEN AuthenticatePass(recvd[i])
            ELSE IF sent[i] = CmdCapabilities THEN GetCapabilities(recvd[i])
            ELSE SelectGroupHelper(recvd[i])
    IN  /\ \A i \in DOMAIN sent :
            ~IsOk(stepResult(i))
            => /\ i = Len(sent)
               /\ nsent = i
               /\ pc = "failed"
               /\ result = stepResult(i)
               /\ client_config = None
               /\ nops = 0
        /\ pc = "failed"
           => /\ ~IsOk(result)
              /\ client_config = None
              /\ IF sent = <<>> THEN result = lastResp
                 ELSE result = stepResult(Len(sent))
        /\ pc = "ready" <=> client_config # None

\* CAPABILITIES failed on a connection with credentials and an initial group:
\* connect has failed and GROUP was not sent.
C3_Witness ==
    /\ pc = "failed"
    /\ config.group.some
    /\ sent = <<CmdAuthInfoUser, CmdAuthInfoPass, CmdCapabilities>>
    /\ result.tag = "MissingField"

----------------------------------------------------------------------------
(* The methods of the client *)

\* C4: select_group writes one GROUP command and classifies the response: on
\* Known(GroupSelected) (the response parsing into a Group) it returns that
\* Group and caches it; on Known(NoSuchNewsgroup) it returns a Failure with
\* that code and response and no message; on any other code it returns a
\* Failure with the code, the response, and the first line as message.
C4_SelectGroupClassifies ==
    (lastOp = "select_group" /\ IsOk(lastResp))
    => LET resp   == lastResp.val
           code   == Code(resp)
           parsed == GroupTryFrom(resp)
       IN  /\ lastCmd.v.verb = "GROUP"
           /\ nsent = Len(sent) + nops
           /\ (code = Known("GroupSelected") /\ IsOk(parsed))
              => (result = Ok(parsed.val) /\ group = Some(parsed.val))
           /\ resp.first_line = <<"211", "3", "1", "3", "g1">>
              => result = Ok([number |-> 3, low |-> 1, high |-> 3, name |-> "g1"])
           /\ code = Known("NoSuchNewsgroup")
              => result = Failure(code, resp, None)
           /\ code \notin {Known("GroupSelected"), Known("NoSuchNewsgroup")}
              => result = Failure(code, resp, Some(resp.first_line))

\* select_group was answered 411 and returned the message-less Failure.
C4_Witness ==
    /\ lastOp = "select_group"
    /\ IsOk(lastResp)
    /\ lastResp.val.code = 411
    /\ result = Failure(Known("NoSuchNewsgroup"), lastResp.val, None)

\* C5: when connect returns, the cached group is None without an initial
\* group and the Group its selection returned otherwise; afterwards a
\* select_group that returns Ok(g) leaves Some(g) cached, and every other
\* call, a failing select_group included, leaves the cached group as it was.
\* So the cached group is always that of the most recent successful selection.
C5_CachedGroupIsLastSelection ==
    [][ pc' = "ready"
        => IF pc # "ready"
           THEN group' = IF config.group.some
                         THEN Some(SelectGroupHelper(lastResp').val)
                         ELSE None
           ELSE IF lastOp' = "select_group" /\ nops' = nops + 1 /\ IsOk(result')
           THEN group' = Some(result'.val)
           ELSE group' = group ]_vars

\* A select_group answered with an unparsable 211 line failed and the group
\* cached before is still cached.
C5_Witness ==
    /\ lastOp = "select_group"
    /\ IsOk(lastResp)
    /\ lastResp.val.code = 211
    /\ result = MissingField("name")
    /\ group = Some([number |-> 2, low |-> 1, high |-> 2, name |-> "g2"])

\* C6: stat returns Ok(None) on NoArticleWithNumber, NoArticleWithMessageId
\* and InvalidCurrentArticleNumber, Ok(Some(value)) with the value converted
\* from the response on ArticleExists, and a Failure carrying the response on
\* every other code.
C6_StatClassifies ==
    (lastOp = "stat" /\ IsOk(lastResp))
    => LET resp == lastResp.val
       IN  IF resp.code \in {423, 430, 420} THEN result = Ok(None)
           ELSE IF resp.code = 223
           THEN result = Ok(Some([stat |-> Tail(resp.first_line)]))
           ELSE result = Failure(ResponseCodeFrom(resp.code), resp, None)

\* stat was answered 420 and returned Ok(None).
C6_Witness ==
    /\ lastOp = "stat"
    /\ IsOk(lastResp)
    /\ lastResp.val.code = 420
    /\ result = Ok(None)

\* C7: body succeeds exactly when the response code is that of BODY,
\* Known(Body) (222); any other code, 221 included, gives a Failure carrying
\* the response.
C7_BodyRequiresBodyKind ==
    (lastOp = "body" /\ IsOk(lastResp))
    => LET resp == lastResp.val
       IN  IF Code(resp) = Known("Body") THEN IsOk(result)
           ELSE result = ErrorFailure(resp)

\* C8: article returns a converted article when the code is Known(Article)
\* and head a converted Head when the code is Known(Head); on any other code
\* each returns the Failure of the code check: the actual code, the response
\* and no message.
C8_ArticleHeadRequireTheirKind ==
    /\ (lastOp = "article" /\ IsOk(lastResp))
       => LET resp == lastResp.val
          IN  IF resp.code = 220 THEN result = Ok([article |-> resp.body])
              ELSE result = Failure(ResponseCodeFrom(resp.code), resp, None)
    /\ (lastOp = "head" /\ IsOk(lastResp))
       => LET resp == lastResp.val
          IN  IF resp.code = 221 THEN result = Ok([headers |-> resp.body])
              ELSE result = Failure(ResponseCodeFrom(resp.code), resp, None)

\* article was answered 221, the code of HEAD, and returned the Failure.
C8_Witness ==
    /\ lastOp = "article"
    /\ IsOk(lastResp)
    /\ lastResp.val.code = 221
    /\ result = Failure(Known("Head"), lastResp.val, None)

\* C9: update_capabilities replaces the cached capabilities by exactly the
\* tokens of the new response's data block and returns them; when the command
\* fails, the code is not Known(Capabilities) or the response cannot be
\* converted, it returns an error and the cached capabilities stay as they were.
C9_UpdateCapabilitiesReplaces ==
    [][ (lastOp' = "update_capabilities" /\ nops' = nops + 1)
        => LET res == lastResp'
           IN  IF IsOk(res) /\ res.val.code = 101 /\ res.val.body.some
               THEN /\ capabilities'.tokens =
                          UNION {Range(l) : l \in Range(res.val.body.v)}
                    /\ result' = Ok(capabilities')
               ELSE /\ capabilities' = capabilities
                    /\ ~IsOk(result') ]_vars

\* connect cached {READER}; the first call, update_capabilities, was answered
\* with VERSION 2 and POST, and READER is no longer cached.
C9_Witness ==
    /\ nops = 1
    /\ lastOp = "update_capabilities"
    /\ ~config.group.some
    /\ recvd[Len(recvd)].val.body = ReaderBlock
    /\ IsOk(result)
    /\ capabilities = [tokens |-> {"VERSION", "2", "POST"}]

\* C10: command, article, head, body, stat and close leave the cached group
\* and the cached capabilities unchanged, whatever the response; a call that
\* changes the cached group is a select_group and one that changes the cached
\* capabilities an update_capabilities; command returns what the connection
\* returned, whatever its code.
C10_OnlySelectAndUpdateWriteCaches ==
    [][ (pc = "ready" /\ nops' = nops + 1)
        => /\ lastOp' \in {"command", "article", "head", "body", "stat", "close"}
              => UNCHANGED <<group, capabilities>>
           /\ group' # group => lastOp' = "select_group"
           /\ capabilities' # capabilities => lastOp' = "update_capabilities"
           /\ lastOp' = "command" => result' = lastResp' ]_vars

\* command(GROUP g1) was answered "211 3 1 3 g1" and returned that response,
\* and no group is cached.
C10_Witness ==
    /\ lastOp = "command"
    /\ lastCmd = Some(CmdGroup("g1"))
    /\ IsOk(lastResp)
    /\ lastResp.val.first_line = <<"211", "3", "1", "3", "g1">>
    /\ result = lastResp
    /\ group = None

----------------------------------------------------------------------------
(* Authentication, close and the initial group *)

\* C11: with credentials configured, a client exists only after AUTHINFO USER
\* was answered 381 and AUTHINFO PASS was answered Known(AuthenticationAccepted);
\* a PASS response with any other code fails connect with the Failure
\* "AUTHINFO PASS failed" carrying that response, and PASS stays the last
\* command written: no CAPABILITIES and no GROUP follow.
C11_AuthCompletesOrConnectFails ==
    /\ (config.authinfo.some /\ pc = "ready")
       => /\ Len(sent) >= 2
          /\ sent[1] = CmdAuthInfoUser
          /\ IsOk(recvd[1]) /\ recvd[1].val.code = 381
          /\ sent[2] = CmdAuthInfoPass
          /\ IsOk(recvd[2]) /\ recvd[2].val.code = 281
    /\ \A i \in DOMAIN sent :
          (sent[i] = CmdAuthInfoPass /\ IsOk(recvd[i]) /\ recvd[i].val.code # 281)
          => /\ pc = "failed"
             /\ result = Failure(ResponseCodeFrom(recvd[i].val.code), recvd[i].val,
                                 Some(<<"AUTHINFO", "PASS", "failed">>))
             /\ client_config = None
             /\ sent = <<CmdAuthInfoUser, CmdAuthInfoPass>>
             /\ nsent = 2

\* AUTHINFO PASS was answered 381 again and connect has failed.
C11_Witness ==
    /\ sent = <<CmdAuthInfoUser, CmdAuthInfoPass>>
    /\ IsOk(recvd[2])
    /\ recvd[2].val.code = 381
    /\ pc = "failed"
    /\ result.tag = "Failure"

\* C12: close writes exactly one command, QUIT; it returns the response as it
\* is when the code is Known(ConnectionClosing) and the message-less Failure
\* carrying the response on any other code.
C12_CloseExpectsConnectionClosing ==
    [][ (pc = "ready" /\ nops' = nops + 1 /\ lastOp' = "close")
        => /\ nsent' = nsent + 1
           /\ lastCmd' = Some(CmdQuit)
           /\ IsOk(lastResp')
              => IF lastResp'.val.code = 205
                 THEN result' = Ok(lastResp'.val)
                 ELSE result' = Failure(ResponseCodeFrom(lastResp'.val.code),
                                        lastResp'.val, None) ]_vars

\* close was answered 211 and returned the Failure carrying that response.
C12_Witness ==
    /\ lastOp = "close"
    /\ lastCmd = Some(CmdQuit)
    /\ IsOk(lastResp)
    /\ lastResp.val.code = 211
    /\ result = Failure(Known("GroupSelected"), lastResp.val, None)

\* C13: without an initial group connect writes no GROUP command and the
\* client it returns has no cached group; with the initial group Some(name)
\* the handshake of a returned client holds exactly one GROUP command, for
\* that name, and the cached group is Some of the Group parsed from its response.
C13_InitialGroup ==
    LET groups == {i \in DOMAIN sent : sent[i].verb = "GROUP"}
    IN  /\ ~config.group.some
           => /\ groups = {}
              /\ (pc = "ready" /\ nops = 0) => group = None
        /\ config.group.some
           => /\ Cardinality(groups) <= 1
              /\ \A i \in groups : sent[i] = CmdGroup(config.group.v)
              /\ pc = "ready"
                 => /\ Cardinality(groups) = 1
                    /\ \A i \in groups :
                          /\ IsOk(recvd[i]) /\ recvd[i].val.code = 211
                          /\ IsOk(GroupTryFrom(recvd[i].val))
                          /\ nops = 0 => group = Some(GroupTryFrom(recvd[i].val).val)

\* connect with credentials and the initial group g1 returned a client whose
\* cached group is the one parsed from "211 3 1 3 g1".
C13_Witness ==
    /\ pc = "ready"
    /\ nops = 0
    /\ config.authinfo.some
    /\ config.group = Some("g1")
    /\ sent[4] = CmdGroup("g1")
    /\ group = Some([number |-> 3, low |-> 1, high |-> 3, name |-> "g1"])

----------------------------------------------------------------------------
(* Compression-marker detection (raw/compression.rs) *)

\* The most chunks a first line is made of.
MaxChunks == 4

CR == "CR"
LF == "LF"

\* The bytes of b"[COMPRESS=GZIP]".
Marker == <<"[", "C", "O", "M", "P", "R", "E", "S", "S", "=", "G", "Z", "I", "P", "]">>

\* slice::ends_with
EndsWith(s, suffix) ==
    /\ Len(s) >= Len(suffix)
    /\ SubSeq(s, Len(s) - Len(suffix) + 1, Len(s)) = suffix

\* use_decoder, but looking for the marker alone at the end of the line.
UseDecoderIgnoringTerminator(line) == EndsWith(line, Marker)

\* Compression::use_decoder for XFeature, the only variant.
UseDecoder(line) == EndsWith(line, Marker \o <<CR, LF>>)

\* The pieces first lines are put together from.
Chunks == { <<"x">>, <<"]">>, <<CR>>, <<LF>>, Marker }

RECURSIVE Flatten(_)
Flatten(cs) == IF cs = <<>> THEN <<>> ELSE Head(cs) \o Flatten(Tail(cs))

\* The first lines handed to use_decoder.
FirstLines == { Flatten(cs) : cs \in UNION { [1..n -> Chunks] : n \in 0..MaxChunks } }

\* A first line arrives from the stream.
DecoderReceive ==
    /\ first_line = <<>>
    /\ use_decoder = None
    /\ \E line \in FirstLines \ {<<>>} : first_line' = line
    /\ UNCHANGED <<config, pc, sent, recvd, nsent, nrecv, unanswered, server_group,
                   lastCmd, lastResp, result, client_config, capabilities, group,
                   lastOp, nops, use_decoder>>

\* The stream asks use_decoder whether the data block is compressed.
DecoderSniff ==
    /\ use_decoder = None
    /\ use_decoder' = Some(UseDecoder(first_line))
    /\ UNCHANGED <<config, pc, sent, recvd, nsent, nrecv, unanswered, server_group,
                   lastCmd, lastResp, result, client_config, capabilities, group,
                   lastOp, nops, first_line>>

NextDecoder ==
    \/ DecoderReceive
    \/ DecoderSniff

SpecDecoder == Init /\ [][NextDecoder]_vars

\* The line holds the marker at position k (its first byte is byte k).
MarkerAt(line, k) ==
    /\ k >= 1
    /\ k + Len(Marker) - 1 <= Len(line)
    /\ \A j \in 1..Len(Marker) : line[k + j - 1] = Marker[j]

\* C14: use_decoder is true exactly when the last two bytes of the first line
\* are CR LF and the fifteen bytes before them are "[COMPRESS=GZIP]"; a line
\* that ends with the marker itself, and a line holding the marker only at
\* places other than directly before its end, are not detected.
C14_MarkerDirectlyBeforeCrlf ==
    use_decoder.some
    => LET n == Len(first_line)
       IN  /\ use_decoder.v
              <=> /\ n >= Len(Marker) + 2
                  /\ first_line[n - 1] = CR
                  /\ first_line[n] = LF
                  /\ MarkerAt(first_line, n - Len(Marker) - 1)
           /\ MarkerAt(first_line, n - Len(Marker) + 1) => ~use_decoder.v
           /\ (\A k \in 1..n : MarkerAt(first_line, k) => k # n - Len(Marker) - 1)
              => ~use_decoder.v

\* "x[COMPRESS=GZIP]\r\n" was detected as compressed.
C14_Witness ==
    /\ first_line = <<"x">> \o Marker \o <<CR, LF>>
    /\ use_decoder = Some(TRUE)

\* The marker followed by "x\r\n", and the marker without CRLF, were not detected.
C14_WitnessNotDetected ==
    /\ first_line \in { Marker \o <<"x", CR, LF>>, <<"x">> \o Marker }
    /\ use_decoder = Some(FALSE)

----------------------------------------------------------------------------
(* Group conversion on its own (types/response/group.rs) *)

\* The most fields a first line carries after its code.
MaxFields == 4

\* The texts a field of the first line can hold.
FieldTexts == {"1", "2", "x", "g1"}

\* The first lines the conversion is applied to, without their code.
FieldLines == UNION { [1..n -> FieldTexts] : n \in 0..MaxFields }

\* A response has been read and is about to be converted.
GroupInit ==
    /\ config \in ClientConfigs
    /\ pc = "start"
    /\ sent = <<>>
    /\ recvd = <<>>
    /\ nsent = 0
    /\ nrecv = 0
    /\ unanswered = <<>>
    /\ server_group = None
    /\ lastCmd = None
    /\ lastResp \in { Ok(RawResponse(c, rest, NoDataBlocks)) :
                        c \in {"211", "411"}, rest \in FieldLines }
    /\ result = Pending
    /\ client_config = None
    /\ capabilities = NoCapabilities
    /\ group = None
    /\ lastOp = "connect"
    /\ nops = 0
    /\ first_line = <<>>
    /\ use_decoder = None

\* Group::try_from(&resp)
GroupConvert ==
    /\ result = Pending
    /\ result' = GroupTryFrom(lastResp.val)
    /\ UNCHANGED <<config, pc, sent, recvd, nsent, nrecv, unanswered, server_group,
                   lastCmd, lastResp, client_config, capabilities, group, lastOp,
                   nops, first_line, use_decoder>>

NextGroup == GroupConvert

SpecGroup == GroupInit /\ [][NextGroup]_vars

\* The names of the fields after the code, in their order on the line.
GroupFieldNames == <<"number", "low", "high", "name">>

\* C15: a response whose code is not Known(GroupSelected) converts to the
\* Failure carrying it.  Otherwise the tokens after the code are number, low,
\* high, name in that order; the first field that is absent or, for the three
\* numbers, not numeric decides the error: missing-field naming it when it is
\* absent, parse error when it is not numeric.  When all four are good the
\* Group holds them, and tokens after the name are ignored.
C15_GroupFieldsInOrder ==
    result # Pending
    => LET resp == lastResp.val
           f    == Tail(resp.first_line)
           bad  == { i \in 1..4 : \/ i > Len(f)
                                  \/ i <= 3 /\ f[i] \notin {"1", "2"} }
       IN  IF resp.code # 211
           THEN result = Failure(ResponseCodeFrom(resp.code), resp, None)
           ELSE IF bad = {}
           THEN result = Ok([number |-> ParseU32[f[1]], low |-> ParseU32[f[2]],
                             high |-> ParseU32[f[3]], name |-> f[4]])
           ELSE LET i == CHOOSE j \in bad : \A k \in bad : j <= k
                IN  result = IF i > Len(f)
                             THEN MissingField(GroupFieldNames[i])
                             ELSE ParseError(GroupFieldNames[i])

\* "211 1 2 1" was converted: the name is the first absent field.
C15_Witness ==
    /\ lastResp = Ok(RawResponse("211", <<"1", "2", "1">>, NoDataBlocks))
    /\ result = MissingField("name")

----------------------------------------------------------------------------
(* The connection under the client: one command, one response *)

C17_NoReplyAfterTimeout ==
    [][ (pc = "ready" /\ nops' = nops + 1)
        => /\ lastResp' = TimedOut => result' = TimedOut
           /\ unanswered # <<>> => ~IsOk(lastResp') ]_vars

\* A call timed out and the next call returned from the response that was
\* still on its way: it took the answer to the earlier command for its own.
C17_StaleResponseTaken ==
    /\ pc = "ready"
    /\ nops = 2
    /\ IsOk(lastResp)
    /\ Len(unanswered) = 1

----------------------------------------------------------------------------
(* Capabilities and the group at connect, and the group on the server *)

\* C18: the handshake of every client connect returned holds exactly one
\* CAPABILITIES command, whatever the configuration; its response had the code
\* Known(Capabilities) and converted to a set of capabilities, and that set
\* is what the new client caches.
C18_CapabilitiesKnownAtConnect ==
    LET caps == {i \in DOMAIN sent : sent[i] = CmdCapabilities}
    IN  /\ Cardinality(caps) <= 1
        /\ pc = "ready"
           => /\ Cardinality(caps) = 1
              /\ \A i \in caps :
                    /\ IsOk(recvd[i])
                    /\ recvd[i].val.code = 101
                    /\ recvd[i].val.body.some
                    /\ nops = 0
                       => capabilities =
                            [tokens |-> UNION {Range(l) : l \in Range(recvd[i].val.body.v)}]

\* connect without credentials and group returned a client caching the
\* capabilities VERSION, 2 and POST of the only response it read.
C18_Witness ==
    /\ pc = "ready"
    /\ nops = 0
    /\ sent = <<CmdCapabilities>>
    /\ recvd[1].val.body = VersionBlock
    /\ capabilities = [tokens |-> {"VERSION", "2", "POST"}]

\* The name of the cached group, if one is cached.
CachedGroupName == IF group.some THEN Some(group.v.name) ELSE None

\* Every group-selected response read so far that names a group names the
\* group its command asked for.
ServerNamesRequestedGroup ==
    /\ \A i \in DOMAIN sent :
          (sent[i].verb = "GROUP" /\ IsOk(recvd[i]) /\ recvd[i].val.code = 211
             /\ Len(recvd[i].val.first_line) >= 5)
          => recvd[i].val.first_line[5] = sent[i].arg
    /\ (lastCmd.some /\ IsOk(lastResp))
       => \/ lastCmd.v.verb # "GROUP"
          \/ lastResp.val.code # 211
          \/ Len(lastResp.val.first_line) < 5
          \/ lastResp.val.first_line[5] = lastCmd.v.arg

\* C19: on a client that was given typed method calls only, here connect and
\* at most one call other than command, and whose server names the group it
\* was asked for, the name of the cached group is the group selected on the
\* server: both none, or the same name.
C19_CachedGroupIsServerGroup ==
    (pc = "ready" /\ nops <= 1 /\ lastOp # "command" /\ ServerNamesRequestedGroup)
    => CachedGroupName = server_group

\* select_group("g2") on a fresh client without a group was answered
\* "211 3 1 3": the server selected g2 and the cache stayed empty.
C19_UnparsedSelection ==
    /\ pc = "ready"
    /\ nops = 1
    /\ lastOp = "select_group"
    /\ lastCmd = Some(CmdGroup("g2"))
    /\ lastResp = Ok(RawResponse("211", <<"3", "1", "3">>, VersionBlock))
    /\ result = MissingField("name")
    /\ group = None
    /\ server_group = Some("g2")

\* C20: NntpClient::select_group returns for every result of the connection
\* what the helper of connect returns for it, and on success caches the Group
\* it returns; the GROUP step of connect ends as select_group on a client
\* without a group would: its error is the error connect fails with, its
\* Group is the group of the client connect returns.
C20_HelperAndMethodAgree ==
    /\ (pc = "ready" /\ nops > 0 /\ lastOp = "select_group")
       => /\ result = SelectGroupHelper(lastResp)
          /\ IsOk(result) => group = Some(result.val)
    /\ \A i \in DOMAIN sent :
          (sent[i].verb = "GROUP" /\ pc \in {"ready", "failed"})
          => LET method == ClientSelectGroup(None, recvd[i])
             IN  /\ IsOk(method.ret) <=> pc = "ready"
                 /\ pc = "failed" => result = method.ret
                 /\ (pc = "ready" /\ nops = 0) => group = method.group

\* The GROUP step of connect was answered 411 and connect failed with the
\* message-less Failure select_group returns for that response.
C20_Witness ==
    /\ pc = "failed"
    /\ lastCmd = Some(CmdGroup("g1"))
    /\ IsOk(lastResp)
    /\ lastResp.val.code = 411
    /\ result = Failure(Known("NoSuchNewsgroup"), lastResp.val, None)
    /\ result = ClientSelectGroup(None, lastResp).ret

----------------------------------------------------------------------------
(* The configuration kept in the client *)

====
